---- MODULE Spec2Model ----
(***************************************************************************)
(* Room coordination and message-relay server (src/server.js).            *)
(*                                                                         *)
(* The server is a single Node.js process: every socket.io event handler  *)
(* is a synchronous function (no await, no timer), so the event loop runs  *)
(* each handler to completion before it dispatches the next one.  Each     *)
(* handler is therefore one action, and the interleavings of handlers of   *)
(* different connections are the interleavings of these actions.           *)
(*                                                                         *)
(* room.users is a Map keyed by socket id; the model keeps its key set     *)
(* (the joinedAt/lastActive stamps are not read by any handler).           *)
(*                                                                         *)
(* The browser page (src/public/js/main.js) is the client of a connection: *)
(* it keeps the room it is in (currentRoom) and the participant count it   *)
(* shows (the text of #userCount).  A connection whose client is not the   *)
(* page has no such state (NoPage).                                        *)
(***************************************************************************)
EXTENDS Integers, Sequences, FiniteSets, TLC

(***************************************************************************)
(* Program constants                                                       *)
(***************************************************************************)
MaxUsers == 10
MaxMessages == 100
BackfillSize == 50

(***************************************************************************)
(* Bounds of the model                                                     *)
(***************************************************************************)
\* sessions (socket connections) that act in the main specification
NumMainSessions == 2
\* distinct values that uuidv4().substring(0, 6) can take
NumRoomIds == 2
\* messages a room accepts in the main and capacity specifications
MaxSends == 1
\* sessions beyond the MaxUsers - 1 already in the room (capacity spec.)
CapNewcomers == 2
\* sessions that act in the transcript specification
NumTSessions == 2
\* messages a room accepts beyond MaxMessages (transcript spec.)
TExtraSends == 2
\* the counts that a page shows stay between -MaxShown and MaxShown (page
\* specification)
MaxShown == 3

CapPrefill == MaxUsers - 1
NumSessions == CapPrefill + CapNewcomers
AllSessions == 1..NumSessions
MainSessions == 1..NumMainSessions
CapActors == CapPrefill..NumSessions
TSessions == 1..NumTSessions
TSenders == {1}
TMaxSends == MaxMessages + TExtraSends

RoomIds == 1..NumRoomIds
OneRoomId == {1}
NoRoomId == 0
NoSocket == 0
Texts == {"hello"}
Confidences == {9}

VARIABLES
  rooms,         \* the registry: room id -> [users, messages]
  socketRoomId,  \* socket.roomId of every connection
  joined,        \* socket.io broadcast channels every connection is in
  status,        \* "connected" or "disconnected", per connection
  accepted,      \* per room id: messages accepted since the room's creation
  vacated,       \* room ids whose only participant disconnected, not re-created
  handled,       \* the event handled last, with the callback's argument
  emitted,       \* the events that handler broadcast: one record per receiver
  page           \* the browser page of every connection, or NoPage

vars == <<rooms, socketRoomId, joined, status, accepted, vacated,
          handled, emitted, page>>

(***************************************************************************)
(* Values                                                                  *)
(***************************************************************************)
NoMessage == [userId |-> NoSocket, text |-> "", confidence |-> 0, timestamp |-> 0]

NoResponse ==
  [kind |-> "none", success |-> FALSE, error |-> "", roomId |-> NoRoomId,
   userCount |-> 0, messages |-> <<>>]

\* every failure reported with the message of the catch branch
FailureGeneric(msg) ==
  [kind |-> "callback", success |-> FALSE, error |-> "Failed to join room",
   roomId |-> NoRoomId, userCount |-> 0, messages |-> <<>>]

Failure(msg) ==
  [kind |-> "callback", success |-> FALSE, error |-> msg, roomId |-> NoRoomId,
   userCount |-> 0, messages |-> <<>>]

CreateOk(r) ==
  [kind |-> "callback", success |-> TRUE, error |-> "", roomId |-> r,
   userCount |-> 0, messages |-> <<>>]

JoinOk(count, msgs) ==
  [kind |-> "callback", success |-> TRUE, error |-> "", roomId |-> NoRoomId,
   userCount |-> count, messages |-> msgs]

Handled(ev, s, r, resp) ==
  [event |-> ev, socket |-> s, roomId |-> r, response |-> resp]

\* a handled sendTranscript, with the payload { roomId, text, confidence }
HandledSend(s, r, text, confidence) ==
  [event |-> "sendTranscript", socket |-> s, roomId |-> r,
   response |-> NoResponse, text |-> text, confidence |-> confidence]

(***************************************************************************)
(* The browser page (src/public/js/main.js)                                *)
(***************************************************************************)
\* a connection that is not driven by the page
NoPage == [open |-> FALSE, currentRoom |-> NoRoomId, userCount |-> 0]

\* the page on its home screen: let currentRoom = null, and the count that
\* the home screen shows (switchToHomeScreen)
HomePage == [open |-> TRUE, currentRoom |-> NoRoomId, userCount |-> 1]

\* the callback of createRoom and joinRoom on success: currentRoom = roomId;
\* switchToRoomScreen() does not write the count
PageEnterRoom(pg, s, r) ==
  IF pg[s].open THEN [pg EXCEPT ![s].currentRoom = r] ELSE pg

\* leaveRoom(): currentRoom = null; switchToHomeScreen()
PageLeaveRoom(pg, s) ==
  IF pg[s].open THEN [pg EXCEPT ![s] = HomePage] ELSE pg

\* the userJoined and userLeft listeners: updateUserCount(1) and
\* updateUserCount(-1) for every such event delivered to connection t
UpdateUserCount(count, evs, t) ==
  count + Cardinality({e \in evs : e.to = t /\ e.event = "userJoined"})
        - Cardinality({e \in evs : e.to = t /\ e.event = "userLeft"})

\* the pages after the events evs have been delivered
PageDeliver(pg, evs) ==
  [t \in AllSessions |->
     IF pg[t].open
       THEN [pg[t] EXCEPT !.userCount = UpdateUserCount(@, evs, t)]
       ELSE pg[t]]

(***************************************************************************)
(* The registry (const rooms = new Map())                                  *)
(***************************************************************************)
HasRoom(r) == r \in DOMAIN rooms

RoomsSet(r, room) ==
  [x \in DOMAIN rooms \cup {r} |-> IF x = r THEN room ELSE rooms[x]]

RoomsDelete(r) == [x \in DOMAIN rooms \ {r} |-> rooms[x]]

\* a room created without its creator
NewRoomNoCreator(s) == [users |-> {}, messages |-> <<>>]

NewRoom(s) == [users |-> {s}, messages |-> <<>>]

\* the capacity check with > in place of >=
RoomIsFullOffByOne(room) == Cardinality(room.users) > MaxUsers

\* room.users.size >= 10
RoomIsFull(room) == Cardinality(room.users) >= MaxUsers

\* an insert that is lost
AddUserLost(room, s) == room

\* room.users.set(socket.id, {...})
AddUser(room, s) == [room EXCEPT !.users = @ \cup {s}]

\* users.clear() in place of users.delete(socket.id)
DeleteUserAll(room, s) == [room EXCEPT !.users = {}]

\* room.users.delete(socket.id)
DeleteUser(room, s) == [room EXCEPT !.users = @ \ {s}]

\* the size read before the delete
UserCountBeforeDelete(room) == Cardinality(room.users) + 1

\* the size read before the insert
UserCountBeforeInsert(room) == Cardinality(room.users) - 1

\* room.users.size, as the handlers report it
UserCount(room) == Cardinality(room.users)

\* a removal that never deletes the room
RoomsAfterRemovalKeep(r, room) == RoomsSet(r, room)

\* if (room.users.size === 0) rooms.delete(roomId), after a removal
RoomsAfterRemoval(r, room) ==
  IF Cardinality(room.users) = 0 THEN RoomsDelete(r) ELSE RoomsSet(r, room)

\* the check without the membership test
CanSendAnyone(s, r) == HasRoom(r)

\* room && room.users.has(socket.id), of sendTranscript
CanSend(s, r) == HasRoom(r) /\ s \in rooms[r].users

\* the check without the membership test
CanLeaveAnyone(s, r) == HasRoom(r)

\* room && room.users.has(socket.id), of leaveRoom
CanLeave(s, r) == HasRoom(r) /\ s \in rooms[r].users

\* slice(0, n) in place of slice(-n): the oldest n messages
SliceFirst(msgs, n) ==
  IF Len(msgs) <= n THEN msgs ELSE SubSeq(msgs, 1, n)

\* array.slice(-n)
SliceLast(msgs, n) ==
  IF Len(msgs) <= n THEN msgs ELSE SubSeq(msgs, Len(msgs) - n + 1, Len(msgs))

\* push without the trim
PushNoTrim(msgs, m) == Append(msgs, m)

\* a trim that drops the newest message (pop in place of shift)
PushAndDropNewest(msgs, m) ==
  LET pushed == Append(msgs, m)
  IN IF Len(pushed) > MaxMessages THEN SubSeq(pushed, 1, MaxMessages) ELSE pushed

\* room.messages.push(message); if (room.messages.length > 100) room.messages.shift()
PushAndTrim(msgs, m) ==
  LET pushed == Append(msgs, m)
  IN IF Len(pushed) > MaxMessages THEN Tail(pushed) ELSE pushed

\* new Date().toISOString(): the model stamps a message with its number
\* among the messages its room has accepted, which orders the messages of a
\* room as the server's clock does
Timestamp(r) == Len(accepted[r]) + 1

\* socket.emit in place of socket.to(roomId).emit: only the sender is told
ReceiversSelf(s, r, chan) == {s}

\* io.to(roomId) in place of socket.to(roomId): the sender is not left out
ReceiversAll(s, r, chan) == {t \in AllSessions : r \in chan[t]}

\* socket.to(roomId).emit(...): every socket in the channel but the sender
Receivers(s, r, chan) == {t \in AllSessions : t # s /\ r \in chan[t]}

Broadcast(s, r, chan, ev, count, m) ==
  {[to |-> t, event |-> ev, roomId |-> r, userId |-> s, userCount |-> count,
    message |-> m] : t \in Receivers(s, r, chan)}

(***************************************************************************)
(* Initial state: the process has started and the clients have connected.  *)
(* io.on('connection') only registers the handlers below on the new        *)
(* socket, so a connected socket that has sent nothing has no room state.  *)
(***************************************************************************)
Init ==
  /\ rooms = <<>>
  /\ socketRoomId = [s \in AllSessions |-> NoRoomId]
  /\ joined = [s \in AllSessions |-> {}]
  /\ status = [s \in AllSessions |-> "connected"]
  /\ accepted = [r \in RoomIds |-> <<>>]
  /\ vacated = {}
  /\ handled = Handled("none", NoSocket, NoRoomId, NoResponse)
  /\ emitted = {}
  /\ page = [s \in AllSessions |-> NoPage]

(***************************************************************************)
(* socket.on('createRoom'); r is the value of uuidv4().substring(0, 6)     *)
(***************************************************************************)
CreateRoom(s, r) ==
  /\ status[s] = "connected"
  /\ rooms' = RoomsSet(r, NewRoom(s))
  /\ joined' = [joined EXCEPT ![s] = @ \cup {r}]
  /\ socketRoomId' = [socketRoomId EXCEPT ![s] = r]
  /\ accepted' = [accepted EXCEPT ![r] = <<>>]
  /\ vacated' = vacated \ {r}
  /\ handled' = Handled("createRoom", s, r, CreateOk(r))
  /\ emitted' = {}
  /\ page' = PageEnterRoom(page, s, r)
  /\ UNCHANGED status

(***************************************************************************)
(* socket.on('joinRoom')                                                   *)
(***************************************************************************)
JoinRoom(s, r) ==
  /\ status[s] = "connected"
  /\ IF ~HasRoom(r)
       THEN /\ handled' = Handled("joinRoom", s, r, Failure("Room not found"))
            /\ emitted' = {}
            /\ UNCHANGED <<rooms, joined, socketRoomId>>
     ELSE IF RoomIsFull(rooms[r])
       THEN /\ handled' = Handled("joinRoom", s, r, Failure("Room is full"))
            /\ emitted' = {}
            /\ UNCHANGED <<rooms, joined, socketRoomId>>
     ELSE LET room == AddUser(rooms[r], s)
              chan == [joined EXCEPT ![s] = @ \cup {r}]
          IN /\ joined' = chan
             /\ rooms' = RoomsSet(r, room)
             /\ socketRoomId' = [socketRoomId EXCEPT ![s] = r]
             /\ handled' = Handled("joinRoom", s, r,
                              JoinOk(UserCount(room),
                                     SliceLast(room.messages, BackfillSize)))
             /\ emitted' = Broadcast(s, r, chan, "userJoined",
                                     UserCount(room), NoMessage)
  /\ page' = PageDeliver(IF handled'.response.success
                           THEN PageEnterRoom(page, s, r) ELSE page, emitted')
  /\ UNCHANGED <<status, accepted, vacated>>

(***************************************************************************)
(* socket.on('sendTranscript').  limit bounds the messages a room accepts  *)
(* between its creation and its deletion.                                  *)
(***************************************************************************)
SendTranscript(s, r, text, confidence, limit) ==
  /\ status[s] = "connected"
  /\ Len(accepted[r]) < limit \/ ~CanSend(s, r)
  /\ IF CanSend(s, r)
       THEN LET message == [userId |-> s, text |-> text,
                            confidence |-> confidence, timestamp |-> Timestamp(r)]
            IN /\ rooms' = RoomsSet(r, [rooms[r] EXCEPT
                                 !.messages = PushAndTrim(@, message)])
               /\ accepted' = [accepted EXCEPT ![r] = Append(@, message)]
               /\ emitted' = Broadcast(s, r, joined, "receiveTranscript", 0, message)
       ELSE /\ emitted' = {}
            /\ UNCHANGED <<rooms, accepted>>
  /\ handled' = HandledSend(s, r, text, confidence)
  /\ page' = PageDeliver(page, emitted')
  /\ UNCHANGED <<socketRoomId, joined, status, vacated>>

(***************************************************************************)
(* socket.on('disconnect').  socket.io removes the socket from all its     *)
(* channels before it fires the event.                                     *)
(***************************************************************************)
Disconnect(s) ==
  /\ status[s] = "connected"
  /\ status' = [status EXCEPT ![s] = "disconnected"]
  /\ LET chan == [joined EXCEPT ![s] = {}]
         r == socketRoomId[s]
     IN /\ joined' = chan
        /\ IF r # NoRoomId /\ HasRoom(r)
             THEN LET room == DeleteUser(rooms[r], s)
                  IN /\ rooms' = RoomsAfterRemoval(r, room)
                     /\ IF Cardinality(room.users) = 0
                          THEN /\ accepted' = [accepted EXCEPT ![r] = <<>>]
                               /\ emitted' = {}
                          ELSE /\ accepted' = accepted
                               /\ emitted' = Broadcast(s, r, chan, "userLeft",
                                                UserCount(room), NoMessage)
             ELSE /\ emitted' = {}
                  /\ UNCHANGED <<rooms, accepted>>
  /\ vacated' = vacated \cup {r \in DOMAIN rooms : rooms[r].users = {s}}
  /\ handled' = Handled("disconnect", s, socketRoomId[s], NoResponse)
  /\ page' = PageDeliver(page, emitted')
  /\ UNCHANGED socketRoomId

(***************************************************************************)
(* socket.on('leaveRoom').  A page that sends the request has gone back to *)
(* its home screen before the server handles it (leaveRoom() of main.js).  *)
(***************************************************************************)
LeaveRoom(s, r) ==
  /\ status[s] = "connected"
  /\ IF CanLeave(s, r)
       THEN LET room == DeleteUser(rooms[r], s)
                chan == [joined EXCEPT ![s] = @ \ {r}]
            IN /\ joined' = chan
               /\ rooms' = RoomsAfterRemoval(r, room)
               /\ IF Cardinality(room.users) = 0
                    THEN /\ accepted' = [accepted EXCEPT ![r] = <<>>]
                         /\ emitted' = {}
                    ELSE /\ accepted' = accepted
                         /\ emitted' = Broadcast(s, r, chan, "userLeft",
                                          UserCount(room), NoMessage)
       ELSE /\ emitted' = {}
            /\ UNCHANGED <<rooms, joined, accepted>>
  /\ handled' = Handled("leaveRoom", s, r, NoResponse)
  /\ page' = PageDeliver(PageLeaveRoom(page, s), emitted')
  /\ UNCHANGED <<socketRoomId, status, vacated>>

(***************************************************************************)
(* Main specification: a few sessions, every request, two room ids         *)
(***************************************************************************)
Next ==
  \E s \in MainSessions :
    \/ Disconnect(s)
    \/ \E r \in RoomIds :
         \/ CreateRoom(s, r)
         \/ JoinRoom(s, r)
         \/ LeaveRoom(s, r)
         \/ \E text \in Texts, confidence \in Confidences :
              SendTranscript(s, r, text, confidence, MaxSends)

Spec == Init /\ [][Next]_vars

(***************************************************************************)
(* Capacity specification.  It starts where session 1 has created room 1   *)
(* and sessions 2 .. MaxUsers - 1 have joined it (one createRoom and       *)
(* MaxUsers - 2 joinRoom handlers after Init); the last of these members   *)
(* and the sessions still outside the room then act.                       *)
(***************************************************************************)
InitCap ==
  /\ rooms = [r \in OneRoomId |-> [users |-> 1..CapPrefill, messages |-> <<>>]]
  /\ socketRoomId = [s \in AllSessions |-> IF s <= CapPrefill THEN 1 ELSE NoRoomId]
  /\ joined = [s \in AllSessions |-> IF s <= CapPrefill THEN OneRoomId ELSE {}]
  /\ status = [s \in AllSessions |-> "connected"]
  /\ accepted = [r \in RoomIds |-> <<>>]
  /\ vacated = {}
  /\ handled = Handled("joinRoom", CapPrefill, 1, JoinOk(CapPrefill, <<>>))
  /\ emitted = Broadcast(CapPrefill, 1, joined, "userJoined", CapPrefill, NoMessage)
  /\ page = [s \in AllSessions |-> NoPage]

NextCap ==
  \E s \in CapActors :
    \/ Disconnect(s)
    \/ \E r \in OneRoomId :
         \/ CreateRoom(s, r)
         \/ JoinRoom(s, r)
         \/ LeaveRoom(s, r)
         \/ \E text \in Texts, confidence \in Confidences :
              SendTranscript(s, r, text, confidence, MaxSends)

SpecCap == InitCap /\ [][NextCap]_vars

(***************************************************************************)
(* Transcript specification: one room id, one sender, enough accepted      *)
(* messages for the transcript to overflow.                                *)
(***************************************************************************)
NextT ==
  \/ \E s \in TSessions :
       \/ Disconnect(s)
       \/ \E r \in OneRoomId :
            \/ CreateRoom(s, r)
            \/ JoinRoom(s, r)
            \/ LeaveRoom(s, r)
  \/ \E s \in TSenders, r \in OneRoomId, text \in Texts, confidence \in Confidences :
       SendTranscript(s, r, text, confidence, TMaxSends)

SpecT == Init /\ [][NextT]_vars

(***************************************************************************)
(* Main specification without id collisions: uuidv4() never yields the id  *)
(* of a room that is in the registry, as is the case in all but a          *)
(* negligible fraction of the runs.                                        *)
(***************************************************************************)
CreateRoomFresh(s, r) ==
  /\ r \notin DOMAIN rooms
  /\ CreateRoom(s, r)

NextFresh ==
  \E s \in MainSessions :
    \/ Disconnect(s)
    \/ \E r \in RoomIds :
         \/ CreateRoomFresh(s, r)
         \/ JoinRoom(s, r)
         \/ LeaveRoom(s, r)
         \/ \E text \in Texts, confidence \in Confidences :
              SendTranscript(s, r, text, confidence, MaxSends)

SpecFresh == Init /\ [][NextFresh]_vars

(***************************************************************************)
(* Page specification: every connection is driven by the page.  The page   *)
(* sends createRoom and joinRoom from its buttons, leaveRoom and           *)
(* sendTranscript only for the room it is in (if (currentRoom)), and the   *)
(* user may close it at any time.                                          *)
(***************************************************************************)
InitPage ==
  /\ rooms = <<>>
  /\ socketRoomId = [s \in AllSessions |-> NoRoomId]
  /\ joined = [s \in AllSessions |-> {}]
  /\ status = [s \in AllSessions |-> "connected"]
  /\ accepted = [r \in RoomIds |-> <<>>]
  /\ vacated = {}
  /\ handled = Handled("none", NoSocket, NoRoomId, NoResponse)
  /\ emitted = {}
  /\ page = [s \in AllSessions |-> IF s \in MainSessions THEN HomePage ELSE NoPage]

\* bounds the counts of the model: the pages act while every shown count
\* is strictly between -MaxShown and MaxShown
ShownWithinBounds ==
  \A t \in AllSessions :
    -MaxShown < page[t].userCount /\ page[t].userCount < MaxShown

\* createRoom() of the page
PageCreateRoom(s, r) ==
  /\ ShownWithinBounds
  /\ CreateRoom(s, r)

\* joinRoom() of the page; r is the room code typed in
PageJoinRoom(s, r) ==
  /\ ShownWithinBounds
  /\ JoinRoom(s, r)

\* leaveRoom() of the page
PageLeave(s) ==
  /\ ShownWithinBounds
  /\ page[s].currentRoom # NoRoomId
  /\ LeaveRoom(s, page[s].currentRoom)

\* recognition.onresult of the page
PageSendTranscript(s, text, confidence) ==
  /\ ShownWithinBounds
  /\ page[s].currentRoom # NoRoomId
  /\ SendTranscript(s, page[s].currentRoom, text, confidence, MaxSends)

\* the user closes the page, or the connection is lost
PageClose(s) ==
  /\ ShownWithinBounds
  /\ Disconnect(s)

NextPage ==
  \E s \in MainSessions :
    \/ PageClose(s)
    \/ PageLeave(s)
    \/ \E r \in RoomIds :
         \/ PageCreateRoom(s, r)
         \/ PageJoinRoom(s, r)
    \/ \E text \in Texts, confidence \in Confidences :
         PageSendTranscript(s, text, confidence)

SpecPage == InitPage /\ [][NextPage]_vars

(***************************************************************************)
(* Claims                                                                  *)
(***************************************************************************)

\* C1: in every reachable state each session is recorded as a participant
\* of at most one room of the registry.
C1_AtMostOneRoom ==
  \A s \in AllSessions :
    Cardinality({r \in DOMAIN rooms : s \in rooms[r].users}) <= 1

\* C2: once a session's disconnect has been handled, no room of the
\* registry lists it as a participant.
C2_DisconnectedInNoRoom ==
  \A s \in AllSessions :
    status[s] = "disconnected" =>
      \A r \in DOMAIN rooms : s \notin rooms[r].users

\* C3: every room in the registry has at least one participant; the leave
\* or disconnect that removes the last participant removes the room in the
\* same step.
C3_NoEmptyRoom == \A r \in DOMAIN rooms : rooms[r].users # {}

\* the only participant of a room has just disconnected and the room is gone
C3_Witness ==
  /\ handled.event = "disconnect"
  /\ handled.roomId \in vacated
  /\ handled.roomId \notin DOMAIN rooms

\* C4: after the only remaining participant of room R has disconnected,
\* every joinRoom(R) fails with "Room not found" until R is created again.
C4_JoinAfterLastDisconnect ==
  (handled.event = "joinRoom" /\ handled.roomId \in vacated) =>
    handled.response = Failure("Room not found")

\* C5: in every reachable state every room of the registry has at most
\* MaxUsers (10) participants.
C5_AtMostMaxUsers ==
  \A r \in DOMAIN rooms : Cardinality(rooms[r].users) <= MaxUsers

\* a session outside a room of MaxUsers participants has just been refused
C5_Witness ==
  /\ handled.event = "joinRoom"
  /\ handled.response = Failure("Room is full")
  /\ handled.roomId \in DOMAIN rooms
  /\ Cardinality(rooms[handled.roomId].users) = MaxUsers
  /\ handled.socket \notin rooms[handled.roomId].users

\* C6 as stated: a joinRoom on a room of exactly 10 participants fails with
\* "Room is full"; a joinRoom on a room of exactly 9 participants succeeds,
\* leaves the room with 10 participants and reports userCount 10.
C6_JoinAtCapacity ==
  [][\A s \in AllSessions, r \in RoomIds :
       (/\ handled'.event = "joinRoom"
        /\ handled'.socket = s
        /\ handled'.roomId = r
        /\ r \in DOMAIN rooms) =>
         /\ Cardinality(rooms[r].users) = MaxUsers =>
              handled'.response = Failure("Room is full")
         /\ Cardinality(rooms[r].users) = MaxUsers - 1 =>
              /\ handled'.response.success
              /\ Cardinality(rooms'[r].users) = MaxUsers
              /\ handled'.response.userCount = MaxUsers]_vars

\* C6 amended: a joinRoom on a room of exactly 10 participants fails with
\* "Room is full"; a joinRoom by a session that is not yet a participant, on
\* a room of exactly 9 participants, succeeds, leaves the room with 10
\* participants and reports userCount 10.
C6_JoinAtCapacityNonMember ==
  [][\A s \in AllSessions, r \in RoomIds :
       (/\ handled'.event = "joinRoom"
        /\ handled'.socket = s
        /\ handled'.roomId = r
        /\ r \in DOMAIN rooms) =>
         /\ Cardinality(rooms[r].users) = MaxUsers =>
              handled'.response = Failure("Room is full")
         /\ (Cardinality(rooms[r].users) = MaxUsers - 1 /\ s \notin rooms[r].users) =>
              /\ handled'.response.success
              /\ Cardinality(rooms'[r].users) = MaxUsers
              /\ handled'.response.userCount = MaxUsers]_vars

\* a join has just brought a room from 9 to 10 participants
C6_Witness ==
  /\ handled.event = "joinRoom"
  /\ handled.response.success
  /\ handled.response.userCount = MaxUsers
  /\ handled.roomId \in DOMAIN rooms
  /\ Cardinality(rooms[handled.roomId].users) = MaxUsers

\* C7: the capacity check and the insert of joinRoom are one step with
\* respect to the handlers of other connections: a join of a non-member that
\* succeeds inserts into the very participant set whose size passed the
\* check, a join that fails inserts nothing, and when the handler that ran
\* last brought room R to 10 participants, a joinRoom(R) of another
\* non-member that runs next receives "Room is full".
C7_CheckAndInsertAtomic ==
  [][\A s \in AllSessions, r \in RoomIds :
       (/\ handled'.event = "joinRoom"
        /\ handled'.socket = s
        /\ handled'.roomId = r
        /\ r \in DOMAIN rooms
        /\ s \notin rooms[r].users) =>
         /\ handled'.response.success =>
              /\ Cardinality(rooms[r].users) < MaxUsers
              /\ rooms'[r].users = rooms[r].users \cup {s}
         /\ ~handled'.response.success =>
              /\ Cardinality(rooms[r].users) >= MaxUsers
              /\ rooms' = rooms
         /\ (/\ handled.event = "joinRoom"
             /\ handled.roomId = r
             /\ handled.socket # s
             /\ handled.response.success
             /\ handled.response.userCount = MaxUsers) =>
              handled'.response = Failure("Room is full")]_vars

\* of two sessions that were outside the room of 9, one is now the 10th
\* participant and the other has just been refused
C7_Witness ==
  /\ handled.event = "joinRoom"
  /\ handled.response = Failure("Room is full")
  /\ handled.socket > CapPrefill
  /\ handled.roomId \in DOMAIN rooms
  /\ handled.socket \notin rooms[handled.roomId].users
  /\ Cardinality(rooms[handled.roomId].users) = MaxUsers
  /\ \E s \in AllSessions :
       s > CapPrefill /\ s # handled.socket /\ s \in rooms[handled.roomId].users

\* C8: in every reachable state the transcript of every room of the
\* registry has at most MaxMessages (100) messages.
C8_TranscriptBounded ==
  \A r \in DOMAIN rooms : Len(rooms[r].messages) <= MaxMessages

\* a room that has accepted more than 100 messages holds 100 of them
C8_Witness ==
  \E r \in DOMAIN rooms :
    /\ Len(accepted[r]) > MaxMessages
    /\ Len(rooms[r].messages) = MaxMessages

\* C9: eviction is FIFO: the transcript of a room that has accepted n
\* messages since its creation is the last min(n, 100) of them, in the order
\* in which they were accepted.
C9_TranscriptIsTail ==
  \A r \in DOMAIN rooms :
    LET n == Len(accepted[r])
        k == IF n < MaxMessages THEN n ELSE MaxMessages
    IN /\ Len(rooms[r].messages) = k
       /\ \A i \in 1..k : rooms[r].messages[i] = accepted[r][n - k + i]

\* after 101 accepted messages the transcript runs from the 2nd to the 101st
C9_Witness ==
  \E r \in DOMAIN rooms :
    /\ Len(accepted[r]) = MaxMessages + 1
    /\ rooms[r].messages[1] = accepted[r][2]
    /\ rooms[r].messages[MaxMessages] = accepted[r][MaxMessages + 1]
    /\ \A i \in 1..MaxMessages : rooms[r].messages[i] # accepted[r][1]

\* C10: a sendTranscript naming room R from a session that is not a
\* participant of R (also when R does not exist) emits no receiveTranscript
\* and leaves every transcript, every membership and the registry unchanged.
C10_NonMemberSendIsNoOp ==
  [][\A s \in AllSessions, r \in RoomIds :
       (/\ handled'.event = "sendTranscript"
        /\ handled'.socket = s
        /\ handled'.roomId = r
        /\ ~(r \in DOMAIN rooms /\ s \in rooms[r].users)) =>
         /\ {e \in emitted' : e.event = "receiveTranscript"} = {}
         /\ rooms' = rooms
         /\ joined' = joined
         /\ socketRoomId' = socketRoomId]_vars

\* a session has just sent to an existing room it is not a participant of,
\* while it is still in that room's broadcast channel with another session
C10_Witness ==
  /\ handled.event = "sendTranscript"
  /\ handled.roomId \in DOMAIN rooms
  /\ handled.socket \notin rooms[handled.roomId].users
  /\ \E t \in AllSessions : t # handled.socket /\ handled.roomId \in joined[t]

\* C11: when participant A of room R sends a transcript message to R, a
\* receiveTranscript carrying userId A and the sent text and confidence
\* reaches every other connected participant of R, and never A itself.
C11_TranscriptRelay ==
  (/\ handled.event = "sendTranscript"
   /\ handled.roomId \in DOMAIN rooms
   /\ handled.socket \in rooms[handled.roomId].users) =>
    /\ \A t \in rooms[handled.roomId].users \ {handled.socket} :
         status[t] = "connected" =>
           \E e \in emitted :
             /\ e.to = t
             /\ e.event = "receiveTranscript"
             /\ e.roomId = handled.roomId
             /\ e.message.userId = handled.socket
             /\ e.message.text = handled.text
             /\ e.message.confidence = handled.confidence
    /\ \A e \in emitted : e.to # handled.socket

\* a participant has just sent to a room with at least two other connected
\* participants, who all received the message
C11_Witness ==
  /\ handled.event = "sendTranscript"
  /\ handled.roomId \in DOMAIN rooms
  /\ handled.socket \in rooms[handled.roomId].users
  /\ Cardinality({t \in rooms[handled.roomId].users \ {handled.socket} :
                    status[t] = "connected"}) >= 2
  /\ \A t \in rooms[handled.roomId].users \ {handled.socket} :
       \E e \in emitted : e.to = t /\ e.event = "receiveTranscript"

\* C12 as stated: a successful joinRoom(R) response carries exactly the last
\* min(50, n) messages of R's transcript in chronological order and, as
\* userCount, the number of participants of R after the insert; joining a
\* freshly created room with no messages yields userCount 2 and no messages.
C12_JoinResponse ==
  [][\A s \in AllSessions, r \in RoomIds :
       (/\ handled'.event = "joinRoom"
        /\ handled'.socket = s
        /\ handled'.roomId = r
        /\ handled'.response.success) =>
         LET msgs == rooms[r].messages
             n == Len(msgs)
             k == IF n < BackfillSize THEN n ELSE BackfillSize
             resp == handled'.response
         IN /\ Len(resp.messages) = k
            /\ \A i \in 1..k : resp.messages[i] = msgs[n - k + i]
            /\ resp.userCount = Cardinality(rooms'[r].users)
            /\ (handled.event = "createRoom" /\ handled.roomId = r) =>
                 (resp.userCount = 2 /\ resp.messages = <<>>)]_vars

\* C12 amended: as C12, the last sentence being: a session other than the
\* creator that joins a freshly created room with no messages gets
\* userCount 2 and no messages.
C12_JoinResponseOfNewcomer ==
  [][\A s \in AllSessions, r \in RoomIds :
       (/\ handled'.event = "joinRoom"
        /\ handled'.socket = s
        /\ handled'.roomId = r
        /\ handled'.response.success) =>
         LET msgs == rooms[r].messages
             n == Len(msgs)
             k == IF n < BackfillSize THEN n ELSE BackfillSize
             resp == handled'.response
         IN /\ Len(resp.messages) = k
            /\ \A i \in 1..k : resp.messages[i] = msgs[n - k + i]
            /\ resp.userCount = Cardinality(rooms'[r].users)
            /\ (handled.event = "createRoom" /\ handled.roomId = r
                  /\ handled.socket # s) =>
                 (resp.userCount = 2 /\ resp.messages = <<>>)]_vars

\* a session has just joined a room whose transcript is longer than 50 and
\* got its last 50 messages
C12_Witness ==
  /\ handled.event = "joinRoom"
  /\ handled.response.success
  /\ handled.roomId \in DOMAIN rooms
  /\ Len(rooms[handled.roomId].messages) > BackfillSize
  /\ Len(handled.response.messages) = BackfillSize
  /\ handled.response.messages[BackfillSize] =
       rooms[handled.roomId].messages[Len(rooms[handled.roomId].messages)]
  /\ handled.response.userCount = 2

\* C13: on every successful joinRoom(R) by session S a userJoined with
\* userId S reaches every other connected participant of R, and not S.
C13_UserJoinedRelay ==
  (/\ handled.event = "joinRoom"
   /\ handled.response.success) =>
    /\ handled.roomId \in DOMAIN rooms
    /\ \A t \in rooms[handled.roomId].users \ {handled.socket} :
         status[t] = "connected" =>
           \E e \in emitted :
             /\ e.to = t
             /\ e.event = "userJoined"
             /\ e.roomId = handled.roomId
             /\ e.userId = handled.socket
    /\ \A e \in emitted : e.to # handled.socket

\* a session that started outside the room has just joined it; the room had
\* at least two other connected participants, who were all told
C13_Witness ==
  /\ handled.event = "joinRoom"
  /\ handled.response.success
  /\ handled.socket > CapPrefill
  /\ handled.roomId \in DOMAIN rooms
  /\ handled.socket \in rooms[handled.roomId].users
  /\ Cardinality({t \in rooms[handled.roomId].users \ {handled.socket} :
                    status[t] = "connected"}) >= 2
  /\ \A t \in rooms[handled.roomId].users \ {handled.socket} :
       \E e \in emitted : e.to = t /\ e.event = "userJoined"

\* C14: every userJoined and userLeft emitted for room R carries as
\* userCount the number of participants of R after the join or removal that
\* triggered it.
C14_CountAfterMutation ==
  \A e \in emitted :
    e.event \in {"userJoined", "userLeft"} =>
      /\ e.roomId \in DOMAIN rooms
      /\ e.userCount = Cardinality(rooms[e.roomId].users)

\* a participant has just left or disconnected and the others were told
C14_Witness ==
  /\ handled.event \in {"leaveRoom", "disconnect"}
  /\ handled.roomId \in DOMAIN rooms
  /\ handled.socket \notin rooms[handled.roomId].users
  /\ \E e \in emitted :
       /\ e.event = "userLeft"
       /\ e.userId = handled.socket
       /\ e.userCount = Cardinality(rooms[handled.roomId].users)

\* C15: a joinRoom that fails answers with a structured failure ("Room not
\* found" when the id is absent from the registry, "Room is full" when the
\* room is at capacity), leaves the registry, every room's participants and
\* transcript, the requester's binding and its channels unchanged, emits
\* nothing, and leaves the requester connected, so that it can still issue
\* createRoom or joinRoom.
C15_FailedJoinIsNoOp ==
  [][\A s \in AllSessions, r \in RoomIds :
       (/\ handled'.event = "joinRoom"
        /\ handled'.socket = s
        /\ handled'.roomId = r) =>
         /\ r \notin DOMAIN rooms =>
              (~handled'.response.success /\ handled'.response.error = "Room not found")
         /\ (r \in DOMAIN rooms /\ Cardinality(rooms[r].users) >= MaxUsers) =>
              (~handled'.response.success /\ handled'.response.error = "Room is full")
         /\ ~handled'.response.success =>
              /\ handled'.response.kind = "callback"
              /\ rooms' = rooms
              /\ socketRoomId' = socketRoomId
              /\ joined' = joined
              /\ emitted' = {}
              /\ status'[s] = "connected"
              /\ \A r2 \in RoomIds : (ENABLED CreateRoom(s, r2))']_vars

\* a session bound to a room that is gone has just been refused with
\* "Room not found" and keeps its binding
C15_Witness ==
  /\ handled.event = "joinRoom"
  /\ ~handled.response.success
  /\ handled.response.error = "Room not found"
  /\ socketRoomId[handled.socket] # NoRoomId
  /\ status[handled.socket] = "connected"

\* C16 as stated: the number of participants of a room is the number of
\* successful joins (the creator's initial membership counted) minus the
\* number of effective leaves, step by step: a createRoom sets it to 1, every
\* successful joinRoom adds one, every leaveRoom or disconnect that removes
\* the session from the room takes one away, and nothing else changes it; it
\* is never negative.
C16_NetOfJoinsAndLeaves ==
  [][\A r \in RoomIds :
       LET before == IF r \in DOMAIN rooms THEN Cardinality(rooms[r].users) ELSE 0
           after == IF r \in DOMAIN rooms' THEN Cardinality(rooms'[r].users) ELSE 0
           s == handled'.socket
           ev == handled'.event
       IN /\ after >= 0
          /\ after =
               IF ev = "createRoom" /\ handled'.roomId = r
                 THEN 1
               ELSE IF ev = "joinRoom" /\ handled'.roomId = r
                         /\ handled'.response.success
                 THEN before + 1
               ELSE IF /\ ev \in {"leaveRoom", "disconnect"}
                       /\ r \in DOMAIN rooms
                       /\ s \in rooms[r].users
                       /\ (r \in DOMAIN rooms' => s \notin rooms'[r].users)
                 THEN before - 1
               ELSE before]_vars

\* C16 amended: as C16, where the joins that count are the successful
\* joinRoom of sessions that are not yet participants of the room; a
\* successful joinRoom of a participant leaves the number unchanged.
C16_NetOfNewJoinsAndLeaves ==
  [][\A r \in RoomIds :
       LET before == IF r \in DOMAIN rooms THEN Cardinality(rooms[r].users) ELSE 0
           after == IF r \in DOMAIN rooms' THEN Cardinality(rooms'[r].users) ELSE 0
           s == handled'.socket
           ev == handled'.event
       IN /\ after >= 0
          /\ after =
               IF ev = "createRoom" /\ handled'.roomId = r
                 THEN 1
               ELSE IF ev = "joinRoom" /\ handled'.roomId = r
                         /\ handled'.response.success
                         /\ ~(r \in DOMAIN rooms /\ s \in rooms[r].users)
                 THEN before + 1
               ELSE IF /\ ev \in {"leaveRoom", "disconnect"}
                       /\ r \in DOMAIN rooms
                       /\ s \in rooms[r].users
                       /\ (r \in DOMAIN rooms' => s \notin rooms'[r].users)
                 THEN before - 1
               ELSE before]_vars

\* a session that started outside the room has joined it as the 10th
\* participant and has just left it again: 9 participants remain
C16_Witness ==
  /\ handled.event = "leaveRoom"
  /\ handled.socket > CapPrefill
  /\ handled.roomId \in DOMAIN rooms
  /\ handled.socket \notin rooms[handled.roomId].users
  /\ socketRoomId[handled.socket] = handled.roomId
  /\ Cardinality(rooms[handled.roomId].users) = MaxUsers - 1
  /\ \E e \in emitted : e.event = "userLeft" /\ e.userId = handled.socket

\* C17: after a successful createRoom by session S that returns id R, the
\* registry holds a room R whose participants are exactly {S} and whose
\* transcript is empty, also when a room with id R existed before.
C17_CreatedRoomIsFresh ==
  (handled.event = "createRoom" /\ handled.response.success) =>
    /\ handled.roomId = handled.response.roomId
    /\ handled.response.roomId \in DOMAIN rooms
    /\ rooms[handled.response.roomId].users = {handled.socket}
    /\ rooms[handled.response.roomId].messages = <<>>

\* a session has just created room R, which another session, disconnected
\* by now, had been bound to: an earlier room had the same id
C17_Witness ==
  /\ handled.event = "createRoom"
  /\ handled.response.success
  /\ handled.response.roomId \in DOMAIN rooms
  /\ \E t \in AllSessions :
       /\ t # handled.socket
       /\ status[t] = "disconnected"
       /\ socketRoomId[t] = handled.response.roomId

\* C18: createRoom never returns the id of a room that is in the registry,
\* so it leaves the participants and the transcript of every existing room
\* unchanged.
C18_RoomIdsUnique ==
  [][\A s \in AllSessions, r \in RoomIds :
       (/\ handled'.event = "createRoom"
        /\ handled'.socket = s
        /\ handled'.response.success
        /\ handled'.response.roomId = r) =>
         /\ r \notin DOMAIN rooms
         /\ \A r2 \in DOMAIN rooms :
              r2 \in DOMAIN rooms' /\ rooms'[r2] = rooms[r2]]_vars

\* C19: a disconnect acts on the session's room as leaveRoom does; when the
\* disconnecting session is a participant of no room (it never joined, or it
\* has left with leaveRoom), the disconnect changes no room and emits no
\* userLeft, so a departure is announced at most once.
C19_DisconnectOfNonParticipant ==
  [][\A s \in AllSessions :
       (/\ handled'.event = "disconnect"
        /\ handled'.socket = s
        /\ \A r \in DOMAIN rooms : s \notin rooms[r].users) =>
         /\ rooms' = rooms
         /\ {e \in emitted' : e.event = "userLeft"} = {}]_vars

\* C20: in every reachable state the bound room (socket.roomId) of a
\* connected session is R if and only if the session is a participant of
\* room R in the registry; the binding is cleared when the session leaves R
\* or R is deleted.
C20_BindingIsMembership ==
  \A s \in AllSessions :
    status[s] = "connected" =>
      \A r \in RoomIds :
        socketRoomId[s] = r <=> (r \in DOMAIN rooms /\ s \in rooms[r].users)

\* C21: a leaveRoom(R) from a session that is not a participant of R, or
\* for an R that is not in the registry, changes neither the registry nor
\* any room's participants or transcript, and emits no userLeft.
C21_NonMemberLeaveIsNoOp ==
  [][\A s \in AllSessions, r \in RoomIds :
       (/\ handled'.event = "leaveRoom"
        /\ handled'.socket = s
        /\ handled'.roomId = r
        /\ ~(r \in DOMAIN rooms /\ s \in rooms[r].users)) =>
         /\ rooms' = rooms
         /\ {e \in emitted' : e.event = "userLeft"} = {}]_vars

\* a session that never created or joined a room has just asked to leave a
\* room whose participant is subscribed to the room's channel: nothing was
\* emitted
C21_Witness ==
  /\ handled.event = "leaveRoom"
  /\ socketRoomId[handled.socket] = NoRoomId
  /\ handled.roomId \in DOMAIN rooms
  /\ handled.socket \notin rooms[handled.roomId].users
  /\ \E t \in rooms[handled.roomId].users :
       t # handled.socket /\ handled.roomId \in joined[t]
  /\ emitted = {}

\* C22: transcripts are append-only and their messages immutable: in every
\* step, the transcript of a room id that is in the registry before and
\* after the step is unchanged, or is the old transcript with exactly one
\* message appended at the end and at most one message dropped from the
\* front; joinRoom, leaveRoom and disconnect change no transcript.
C22_TranscriptAppendOnly ==
  [][\A r \in DOMAIN rooms \cap DOMAIN rooms' :
       LET old == rooms[r].messages
           new == rooms'[r].messages
       IN /\ \/ new = old
             \/ /\ Len(new) >= 1
                /\ \/ new = Append(old, new[Len(new)])
                   \/ new = Tail(Append(old, new[Len(new)]))
          /\ handled'.event \in {"joinRoom", "leaveRoom", "disconnect"} =>
               new = old]_vars

\* C23: room isolation: every receiveTranscript, userJoined and userLeft
\* emitted for room R is delivered only to sessions that are participants
\* of R in the registry at that moment; the sessions subscribed to R's
\* broadcast channel are a subset of R's participants, and there are none
\* when R is not in the registry.
C23_RoomIsolation ==
  /\ \A s \in AllSessions, r \in RoomIds :
       r \in joined[s] => (r \in DOMAIN rooms /\ s \in rooms[r].users)
  /\ \A e \in emitted :
       e.roomId \in DOMAIN rooms /\ e.to \in rooms[e.roomId].users

\* C24: a userJoined with userId S is emitted to room R only when S was
\* not a participant of R immediately before the joinRoom; a joinRoom(R) of
\* a session that is already a participant of R changes neither R's
\* participants nor what the other participants are told (nothing is
\* emitted).
C24_RejoinIsSilent ==
  [][\A s \in AllSessions, r \in RoomIds :
       (/\ handled'.event = "joinRoom"
        /\ handled'.socket = s
        /\ handled'.roomId = r) =>
         /\ (\E e \in emitted' :
               e.event = "userJoined" /\ e.userId = s /\ e.roomId = r) =>
              ~(r \in DOMAIN rooms /\ s \in rooms[r].users)
         /\ (r \in DOMAIN rooms /\ s \in rooms[r].users) =>
              /\ r \in DOMAIN rooms'
              /\ rooms'[r].users = rooms[r].users
              /\ emitted' = {}]_vars

\* C25: the participant count that the page of a connected session shows,
\* while the page is in room R, equals the number of participants of R in
\* the registry: right after the page's successful createRoom or joinRoom,
\* and after every userJoined or userLeft delivered to it.
C25_ShownCountIsServerCount ==
  \A s \in AllSessions :
    (/\ page[s].open
     /\ status[s] = "connected"
     /\ page[s].currentRoom # NoRoomId
     /\ \/ /\ handled.event \in {"createRoom", "joinRoom"}
           /\ handled.socket = s
           /\ handled.response.success
        \/ \E e \in emitted :
             e.to = s /\ e.event \in {"userJoined", "userLeft"}) =>
      /\ page[s].currentRoom \in DOMAIN rooms
      /\ page[s].userCount = Cardinality(rooms[page[s].currentRoom].users)

====
